---- MODULE Spec2Model ----
(***************************************************************************)
(* CoreAstra: the safety-gated command execution pipeline as the frontend  *)
(* drives it.  Three React components hold the state of the gate:          *)
(*   Terminal       (handleCommand, confirmDialog, isExecuting),           *)
(*   App            (handleRunCommand, handleApproveCommand,               *)
(*                   handleRejectCommand, pendingCommand, ...),            *)
(*   ApprovalModal  (countdown, createBackup),                             *)
(* and terminalApi.execute carries a request to the backend and parses the *)
(* event stream it answers with.  An action is one handler run from one    *)
(* await to the next; React batches the state updates of such a run.       *)
(* The backend (analyzer, gate, backup manager, streamer) is not part of   *)
(* the frontend sources; what it answers is modelled from the design       *)
(* document and marked so.                                                 *)
(***************************************************************************)
EXTENDS Integers, Sequences, FiniteSets, TLC

\* Bounds of the model
MaxSubs == 2
MaxOut == 1
MaxThrows == 1
MaxBackups == 2
MaxSessions == 3
MaxLoads == 2
MaxStored == 2
MaxMoves == 3

\* ApprovalModal: setCountdown(5)
CoolDown == 5

Subs == 1..MaxSubs
NoSub == 0
Null == "null"

Commands == {"ls", "cp", "chmod", "rm"}

-----------------------------------------------------------------------------
(* Risk Analyzer (backend): a fixed ruleset over the commands of the model *)

risk_level(command) ==
    CASE command = "ls" -> "safe"
      [] command = "cp" -> "medium"
      [] command = "chmod" -> "high"
      [] command = "rm" -> "critical"

reversible(command) == command \in {"ls", "chmod"}

affected_paths(command) ==
    CASE command = "ls" -> <<>>
      [] command = "cp" -> <<"p1">>
      [] command = "chmod" -> <<"p1">>
      [] command = "rm" -> <<"p1", "p2">>

\* the known destructive patterns: a recursive delete
DestructivePattern(command) == command = "rm"

\* derived: risk_level in {high, critical} or !reversible
requires_confirmation(level, rev) == level \in {"high", "critical"} \/ ~rev

analyze(command) ==
    [ risk_level |-> risk_level(command),
      reversible |-> reversible(command),
      affected_paths |-> affected_paths(command),
      requires_confirmation |->
          requires_confirmation(risk_level(command), reversible(command)) ]

-----------------------------------------------------------------------------
(* The execute stream: events, their framing on the wire, and the parser   *)

OutputEv(st) == [type |-> "output", stream |-> st]
CompleteEv(code) ==
    [type |-> "execution_complete", exit_code |-> code, success |-> (code = 0)]
StartEv(bk) == [type |-> "execution_start", backups |-> bk]
ErrorEv(msg, ps) == [type |-> "error", message |-> msg, paths |-> ps]

RECURSIVE SeqsUpTo(_, _)
SeqsUpTo(S, n) ==
    IF n = 0 THEN {<<>>}
    ELSE LET shorter == SeqsUpTo(S, n - 1)
         IN shorter \cup {Append(q, x) : q \in shorter, x \in S}

Range(q) == {q[i] : i \in 1..Len(q)}

\* One BackupRecord per affected path
BackupRecords(ps) == [i \in 1..Len(ps) |-> [original |-> ps[i], backup |-> ps[i]]]

ExitCodes == {0, 1}

\* the terminal event of a run killed at the wall-clock timeout: a synthetic
\* non-zero exit and a timeout flag
TimeoutEv ==
    [type |-> "execution_complete", exit_code |-> 124, success |-> FALSE,
     timeout |-> TRUE]

\* how a run may end: the process exits, or it is killed at the timeout
TerminalEvents == {CompleteEv(x) : x \in ExitCodes} \cup {TimeoutEv}

\* Execution Streamer: zero or more output chunks, then one terminal event
RunStreams ==
    {outs \o <<t>> :
        outs \in {[i \in 1..Len(q) |-> OutputEv(q[i])] :
                     q \in SeqsUpTo({"stdout", "stderr"}, MaxOut)},
        t \in TerminalEvents}

\* Backup Manager: backups are made for an approved, non-reversible command
\* with affected paths, when the request asks for them
NeedsBackup(req) ==
    /\ req.confirmed
    /\ req.create_backup
    /\ ~reversible(req.command)
    /\ affected_paths(req.command) # <<>>

\* What the backend may answer to an Execute request, when the backups of the
\* paths in `failed` fail: the gate refuses an unconfirmed command that
\* requires confirmation; a failed backup aborts with one error naming the
\* failing paths; otherwise the command runs, after an execution_start event
\* listing the backups if any were made.
BackendStreams(req, failed) ==
    LET a == analyze(req.command) IN
    IF a.requires_confirmation /\ ~req.confirmed
    THEN {<<ErrorEv("ConfirmationRequired", {})>>}
    ELSE IF NeedsBackup(req) /\ failed # {}
    THEN {<<ErrorEv("BackupFailed", failed)>>}
    ELSE IF NeedsBackup(req)
    THEN {<<StartEv(BackupRecords(a.affected_paths))>> \o r : r \in RunStreams}
    ELSE RunStreams

\* Audit Logger: the entries the backend appends for one Execute request it
\* answers with the stream evs, one per terminal transition it sees: the
\* approval the request carries, then the outcome of the run
AuditEntries(req, evs) ==
    LET last == evs[Len(evs)] IN
    (IF req.confirmed THEN <<"approved">> ELSE <<>>)
    \o <<IF last.type = "execution_complete" /\ last.success
         THEN "succeeded" ELSE "failed">>

\* The paths whose backup may fail
MayFail(req) ==
    IF NeedsBackup(req) THEN SUBSET Range(affected_paths(req.command)) ELSE {{}}

\* The frame "data: {json}\n\n" of one event, cut in two: H is the prefix
\* "data: " with the first part of the JSON text, T the rest of the JSON
\* text with the line end.
Frame(ev) == <<[half |-> "H", ev |-> ev], [half |-> "T", ev |-> ev]>>

RECURSIVE Encode(_)
Encode(evs) == IF evs = <<>> THEN <<>> ELSE Frame(Head(evs)) \o Encode(Tail(evs))

\* text.split('\n').filter(startsWith('data: ')) then JSON.parse per line:
\* a line that does not start with "data: " is filtered out, a line whose
\* JSON text is cut off by the end of the chunk fails to parse and is skipped.
RECURSIVE ParseChunk(_)
ParseChunk(chunk) ==
    IF chunk = <<>> THEN <<>>
    ELSE IF Head(chunk).half = "T" THEN ParseChunk(Tail(chunk))
    ELSE IF Len(chunk) >= 2
         THEN <<Head(chunk).ev>> \o ParseChunk(Tail(Tail(chunk)))
         ELSE <<>>

-----------------------------------------------------------------------------
(* The file system the Backup Manager works on: paths under the working    *)
(* tree and under the backup root, and what is stored at each              *)

Path(root, id) == [root |-> root, id |-> id]
WorkPaths == {Path("work", i) : i \in 1..2}
BackupPaths == {Path("backups", k) : k \in 1..MaxBackups}
AllPaths == WorkPaths \cup BackupPaths

Contents == {"v1", "v2"}
Missing == "missing"

-----------------------------------------------------------------------------
VARIABLES
    session,            \* one record per submission (the ExecutionSession)
    isExecuting,        \* Terminal
    confirmDialog,      \* Terminal
    approvalModalOpen,  \* App
    pendingCommand,     \* App
    commandAnalysis,    \* App
    approvalLoading,    \* App
    createBackup,       \* ApprovalModal
    countdown,          \* ApprovalModal: <<>> is null, <<n>> the number n
    effectDeps,         \* ApprovalModal: [open, risk_level] of the last effect run
    pendingInfo,        \* bookkeeping: which submission App shows, and for how long
    fs,                 \* backend: the content at each path of the file system
    records,            \* backend: the BackupRecords made so far
    restored,           \* bookkeeping: <<r>> after a restore of r, until its path changes
    mounted,            \* ConnectionManager: the component is mounted
    intervals,          \* ConnectionManager: refresh intervals that are set and not cleared
    sessions,           \* ConnectionManager: the session list on display
    registry,           \* backend: the sessions that exist
    loads,              \* ConnectionManager: connectionsApi.list() calls in flight
    input,              \* Terminal: the text in the command input
    history,            \* Terminal
    historyIndex,       \* Terminal
    lastCommand,        \* bookkeeping: <<c>> once handleCommand has taken a command c
    open,               \* NavigationSettingsDialog: the open prop
    synced,             \* bookkeeping: the dialog's effect has run for its current props
    config,             \* NavigationSettingsDialog: the config prop
    order,              \* NavigationSettingsDialog: the order prop
    draftConfig,        \* NavigationSettingsDialog
    draftOrder,         \* NavigationSettingsDialog
    error,              \* NavigationSettingsDialog
    saved,              \* bookkeeping: <<payload>> of the last onSave call
    moves               \* bookkeeping: the number of handleMove calls so far

vars == <<session, isExecuting, confirmDialog, approvalModalOpen, pendingCommand,
          commandAnalysis, approvalLoading, createBackup, countdown, effectDeps,
          pendingInfo, fs, records, restored, mounted, intervals, sessions, registry,
          loads, input, history, historyIndex, lastCommand, open, synced, config,
          order, draftConfig, draftOrder, error, saved, moves>>

gateVars == <<session, isExecuting, confirmDialog, approvalModalOpen, pendingCommand,
              commandAnalysis, approvalLoading, createBackup, countdown, effectDeps,
              pendingInfo>>
restoreVars == <<fs, records, restored>>
connVars == <<mounted, intervals, sessions, registry, loads>>
historyVars == <<input, history, historyIndex, lastCommand>>
navVars == <<open, synced, config, order, draftConfig, draftOrder, error, saved, moves>>
uiVars == <<connVars, historyVars, navVars>>

terminalVars == <<isExecuting, confirmDialog>>
appVars == <<approvalModalOpen, pendingCommand, commandAnalysis, approvalLoading,
             pendingInfo>>
modalVars == <<createBackup, countdown, effectDeps>>

\* null, in the shape of a CommandAnalysis
NoAnalysis ==
    [ risk_level |-> Null, reversible |-> TRUE, affected_paths |-> <<>>,
      requires_confirmation |-> FALSE ]
NoReq == [command |-> Null, confirmed |-> FALSE, create_backup |-> FALSE]

IdleSession ==
    [ via |-> Null, command |-> Null, pc |-> "idle", analysis |-> NoAnalysis,
      req |-> NoReq, decisions |-> <<>>, cooled |-> TRUE, backupChoice |-> TRUE,
      emitted |-> <<>>, wire |-> <<>>, received |-> <<>>, shown |-> <<>>,
      callbacks |-> 0, throws |-> 0, analysisFailed |-> FALSE,
      asked |-> "undecided", issued |-> 0, failing |-> {}, audit |-> <<>> ]

ClosedDialog == [open |-> FALSE, command |-> "", analysis |-> NoAnalysis, sub |-> NoSub,
                 elapsed |-> 0]

NoDeps == [open |-> FALSE, risk_level |-> Null]

-----------------------------------------------------------------------------
(* Navigation settings: the section ids, the stored values and the         *)
(* functions that read them                                                *)

DEFAULT_NAVIGATION_ORDER ==
    <<"terminal", "chat", "files", "connections", "planner", "monitor">>

DefaultIds == {DEFAULT_NAVIGATION_ORDER[i] : i \in DOMAIN DEFAULT_NAVIGATION_ORDER}

getDefaultNavigationConfig == [id \in DefaultIds |-> TRUE]

\* The keys and ids a stored value may hold: the section ids and one that is
\* no section id.
StoredIds == DefaultIds \cup {"legacy"}

\* The JSON values a stored configuration may give a key.  The string
\* "\"false\"" is the JSON string "false", which JavaScript's Boolean() turns
\* into true.
JsonValues == {"true", "false", "\"false\""}

Boolean(value) == value # "false"

StoredConfigs == UNION {[K -> JsonValues] : K \in SUBSET StoredIds}

StoredOrders == UNION {[1..n -> StoredIds] : n \in 0..MaxStored}

sanitizeConfigInput(inp) ==
    [id \in DefaultIds |->
        IF id \in DOMAIN inp THEN Boolean(inp[id]) ELSE getDefaultNavigationConfig[id]]

\* One function for the two filters of sanitizeOrderInput and one for
\* Array.prototype.includes.
Includes(seq, x) == \E i \in DOMAIN seq : seq[i] = x

sanitizeOrderInput(inp) ==
    LET KnownId(id) == Includes(DEFAULT_NAVIGATION_ORDER, id)
        filtered == SelectSeq(inp, KnownId)
        NotFiltered(id) == ~Includes(filtered, id)
        missing == SelectSeq(DEFAULT_NAVIGATION_ORDER, NotFiltered)
    IN filtered \o missing

\* item is <<>> when localStorage holds nothing under the key, <<value>>
\* otherwise.
readStoredNavigationConfig(item) ==
    IF item = <<>> THEN getDefaultNavigationConfig ELSE sanitizeConfigInput(item[1])

readStoredNavigationOrder(item) ==
    IF item = <<>> THEN DEFAULT_NAVIGATION_ORDER ELSE sanitizeOrderInput(item[1])

NoError == "null"
KeepOneError == "Keep at least one section enabled."
EnableOneError == "Enable at least one section to continue."

-----------------------------------------------------------------------------
(* Initial states                                                          *)

GateInit ==
    /\ session = [s \in Subs |-> IdleSession]
    /\ isExecuting = FALSE
    /\ confirmDialog = ClosedDialog
    /\ approvalModalOpen = FALSE
    /\ pendingCommand = Null
    /\ commandAnalysis = NoAnalysis
    /\ approvalLoading = FALSE
    /\ createBackup = TRUE
    /\ countdown = <<>>
    /\ effectDeps = NoDeps
    /\ pendingInfo = [sub |-> NoSub, elapsed |-> 0]
    /\ fs = [p \in AllPaths |-> IF p \in WorkPaths THEN "v1" ELSE Missing]
    /\ records = <<>>
    /\ restored = <<>>

ConnInit ==
    /\ mounted = FALSE
    /\ intervals = 0
    /\ sessions = {}
    /\ registry = {}
    /\ loads = 0

HistoryInit ==
    /\ input = ""
    /\ history = <<>>
    /\ historyIndex = -1
    /\ lastCommand = <<>>

\* The dialog is mounted closed with the configuration and the order its
\* parent read from storage.
NavInit(configItem, orderItem) ==
    /\ open = FALSE
    /\ synced = TRUE
    /\ config = readStoredNavigationConfig(configItem)
    /\ order = readStoredNavigationOrder(orderItem)
    /\ draftConfig = config
    /\ draftOrder = order
    /\ error = NoError
    /\ saved = <<>>
    /\ moves = 0

Init == GateInit /\ ConnInit /\ HistoryInit /\ NavInit(<<>>, <<>>)

-----------------------------------------------------------------------------
(* Helpers                                                                 *)

\* the next unused submission slot
IsNext(s) == session[s].pc = "idle" /\ \A t \in Subs : t < s => session[t].pc # "idle"

\* ApprovalModal renders null without an analysis; Dialog open={open}
ModalShown == approvalModalOpen /\ commandAnalysis # NoAnalysis

\* Both dialogs are modal: while one is shown the page behind it takes no input
PageBlocked == confirmDialog.open \/ ModalShown

\* A submission that loses its dialog to another one
Discard(ss, s) ==
    IF s # NoSub /\ ss[s].pc = "awaiting" THEN [ss EXCEPT ![s].pc = "discarded"] ELSE ss

\* a request body that says confirmed: true whatever the caller passes
ExecuteRequest_AlwaysConfirmed(command, confirmed) ==
    [command |-> command, confirmed |-> TRUE, create_backup |-> TRUE]

\* fetch(..., body: JSON.stringify({ command, confirmed, create_backup: true }))
ExecuteRequest(command, confirmed) ==
    [command |-> command, confirmed |-> confirmed, create_backup |-> TRUE]

-----------------------------------------------------------------------------
(* Terminal                                                                *)

\* handleCommand(input) from Enter or the Send button, up to the analyze call
SubmitTerminal(s, command) ==
    /\ IsNext(s)
    /\ ~isExecuting
    /\ ~PageBlocked
    /\ session' = [session EXCEPT ![s] =
           [@ EXCEPT !.via = "terminal", !.command = command, !.pc = "analyzing"]]
    /\ UNCHANGED <<terminalVars, appVars, modalVars, restoreVars, uiVars>>

\* a handleCommand that opens the dialog without returning, and goes on to
\* execute the command it has just asked about
handleCommand_NoReturn(s, failed) ==
    LET command == session[s].command
        analysis == analyze(command)
        asks == ~failed /\ analysis.requires_confirmation
    IN
    /\ session[s].via = "terminal"
    /\ session[s].pc = "analyzing"
    /\ confirmDialog' = IF asks
                        THEN [open |-> TRUE, command |-> command,
                              analysis |-> analysis, sub |-> s, elapsed |-> 0]
                        ELSE confirmDialog
    /\ isExecuting' = TRUE
    /\ session' = [(IF asks THEN Discard(session, confirmDialog.sub) ELSE session)
                      EXCEPT ![s] =
           [@ EXCEPT !.pc = "fetching",
                     !.analysis = IF failed THEN NoAnalysis ELSE analysis,
                     !.analysisFailed = failed,
                     !.asked = IF asks THEN "yes" ELSE "no",
                     !.issued = @ + 1,
                     !.req = ExecuteRequest(command, FALSE)]]
    /\ UNCHANGED <<appVars, modalVars, restoreVars, uiVars>>

\* handleCommand after terminalApi.analyze returned or threw
handleCommand(s, failed) ==
    LET command == session[s].command
        analysis == analyze(command)
    IN
    /\ session[s].via = "terminal"
    /\ session[s].pc = "analyzing"
    /\ IF ~failed /\ analysis.requires_confirmation
       THEN /\ confirmDialog' = [open |-> TRUE, command |-> command,
                                 analysis |-> analysis, sub |-> s, elapsed |-> 0]
            /\ session' = [Discard(session, confirmDialog.sub) EXCEPT ![s] =
                   [@ EXCEPT !.pc = "awaiting", !.analysis = analysis, !.asked = "yes"]]
            /\ UNCHANGED isExecuting
       ELSE /\ isExecuting' = TRUE
            /\ session' = [session EXCEPT ![s] =
                   [@ EXCEPT !.pc = "fetching",
                             !.analysis = IF failed THEN NoAnalysis ELSE analysis,
                             !.analysisFailed = failed,
                             !.asked = "no",
                             !.issued = @ + 1,
                             !.req = ExecuteRequest(command, FALSE)]]
            /\ UNCHANGED confirmDialog
    /\ UNCHANGED <<appVars, modalVars, restoreVars, uiVars>>

\* "Execute Anyway": close the dialog, then handleCommand(command, true)
handleConfirmExecution ==
    LET s == confirmDialog.sub IN
    /\ confirmDialog.open
    /\ confirmDialog' = ClosedDialog
    /\ isExecuting' = TRUE
    /\ session' = [session EXCEPT ![s] =
           [@ EXCEPT !.pc = "fetching",
                     !.decisions = Append(@, "approved"),
                     !.cooled = (confirmDialog.elapsed >= CoolDown),
                     !.issued = @ + 1,
                     !.req = ExecuteRequest(confirmDialog.command, TRUE)]]
    /\ UNCHANGED <<appVars, modalVars, restoreVars, uiVars>>

\* Cancel, Escape or a click on the backdrop of the confirmation dialog
CancelConfirmDialog ==
    LET s == confirmDialog.sub IN
    /\ confirmDialog.open
    /\ confirmDialog' = ClosedDialog
    /\ session' = [session EXCEPT ![s] =
           [@ EXCEPT !.pc = "rejected", !.decisions = Append(@, "rejected")]]
    /\ UNCHANGED <<isExecuting, appVars, modalVars, restoreVars, uiVars>>

-----------------------------------------------------------------------------
(* App                                                                     *)

\* handleRunCommand(command) from AI chat or the task planner, up to analyze
SubmitRun(s, command) ==
    /\ IsNext(s)
    /\ ~PageBlocked
    /\ session' = [session EXCEPT ![s] =
           [@ EXCEPT !.via = "run", !.command = command, !.pc = "analyzing"]]
    /\ UNCHANGED <<terminalVars, appVars, modalVars, restoreVars, uiVars>>

\* a handleRunCommand that sets the pending command and opens the modal but
\* leaves the analysis of the previous command on display
handleRunCommand_StaleAnalysis(s, failed) ==
    LET command == session[s].command
        analysis == analyze(command)
    IN
    /\ session[s].via = "run"
    /\ session[s].pc = "analyzing"
    /\ IF ~failed /\ analysis.risk_level \in {"high", "critical"}
       THEN /\ pendingCommand' = command
            /\ commandAnalysis' = IF commandAnalysis = NoAnalysis
                                  THEN analysis ELSE commandAnalysis
            /\ approvalModalOpen' = TRUE
            /\ pendingInfo' = [sub |-> s, elapsed |-> 0]
            /\ session' = [Discard(session, pendingInfo.sub) EXCEPT ![s] =
                   [@ EXCEPT !.pc = "awaiting", !.analysis = analysis, !.asked = "yes"]]
       ELSE /\ session' = [session EXCEPT ![s] =
                   [@ EXCEPT !.pc = "done",
                             !.analysis = IF failed THEN NoAnalysis ELSE analysis,
                             !.analysisFailed = failed,
                             !.asked = "no"]]
            /\ UNCHANGED <<approvalModalOpen, pendingCommand, commandAnalysis,
                           pendingInfo>>
    /\ UNCHANGED <<approvalLoading, terminalVars, modalVars, restoreVars, uiVars>>

\* handleRunCommand after terminalApi.analyze returned or threw
handleRunCommand(s, failed) ==
    LET command == session[s].command
        analysis == analyze(command)
    IN
    /\ session[s].via = "run"
    /\ session[s].pc = "analyzing"
    /\ IF ~failed /\ analysis.risk_level \in {"high", "critical"}
       THEN /\ pendingCommand' = command
            /\ commandAnalysis' = analysis
            /\ approvalModalOpen' = TRUE
            /\ pendingInfo' = [sub |-> s, elapsed |-> 0]
            /\ session' = [Discard(session, pendingInfo.sub) EXCEPT ![s] =
                   [@ EXCEPT !.pc = "awaiting", !.analysis = analysis, !.asked = "yes"]]
       ELSE /\ session' = [session EXCEPT ![s] =
                   [@ EXCEPT !.pc = "done",
                             !.analysis = IF failed THEN NoAnalysis ELSE analysis,
                             !.analysisFailed = failed,
                             !.asked = "no"]]
            /\ UNCHANGED <<approvalModalOpen, pendingCommand, commandAnalysis,
                           pendingInfo>>
    /\ UNCHANGED <<approvalLoading, terminalVars, modalVars, restoreVars, uiVars>>

\* handleApproveCommand(createBackup) up to the execute call
handleApproveCommand(choice) ==
    LET s == pendingInfo.sub IN
    /\ pendingCommand # Null
    /\ approvalLoading' = TRUE
    /\ session' = [session EXCEPT ![s] =
           [@ EXCEPT !.pc = "fetching",
                     !.decisions = Append(@, "approved"),
                     !.cooled = (pendingInfo.elapsed >= CoolDown),
                     !.backupChoice = choice,
                     !.issued = @ + 1,
                     !.req = ExecuteRequest(pendingCommand, TRUE)]]
    /\ UNCHANGED <<approvalModalOpen, pendingCommand, commandAnalysis, pendingInfo,
                   terminalVars, modalVars, restoreVars, uiVars>>

\* a reject that only closes the modal and keeps the pending command
handleRejectCommand_KeepsPending ==
    LET s == pendingInfo.sub IN
    /\ approvalModalOpen' = FALSE
    /\ pendingInfo' = [sub |-> NoSub, elapsed |-> 0]
    /\ session' = IF s = NoSub THEN session
                  ELSE [session EXCEPT ![s] =
                           [@ EXCEPT !.pc = IF @ = "awaiting" THEN "rejected" ELSE @,
                                     !.decisions = Append(@, "rejected")]]
    /\ UNCHANGED <<pendingCommand, commandAnalysis, approvalLoading, terminalVars,
                   modalVars, restoreVars, uiVars>>

\* handleRejectCommand: the modal's onReject
handleRejectCommand ==
    LET s == pendingInfo.sub IN
    /\ approvalModalOpen' = FALSE
    /\ pendingCommand' = Null
    /\ commandAnalysis' = NoAnalysis
    /\ pendingInfo' = [sub |-> NoSub, elapsed |-> 0]
    /\ session' = IF s = NoSub THEN session
                  ELSE [session EXCEPT ![s] =
                           [@ EXCEPT !.pc = IF @ = "awaiting" THEN "rejected" ELSE @,
                                     !.decisions = Append(@, "rejected")]]
    /\ UNCHANGED <<approvalLoading, terminalVars, modalVars, restoreVars, uiVars>>

-----------------------------------------------------------------------------
(* ApprovalModal                                                           *)

\* countdown !== null && countdown > 0
CountingDown == countdown # <<>> /\ countdown[1] > 0

ApproveDisabled == approvalLoading \/ CountingDown

\* <Button onClick={() => onApprove(createBackup)} disabled={...}>
ModalApprove ==
    /\ ModalShown
    /\ ~ApproveDisabled
    /\ handleApproveCommand(createBackup)

\* <Button onClick={onReject} disabled={loading}>Cancel</Button>
ModalCancel ==
    /\ ModalShown
    /\ ~approvalLoading
    /\ handleRejectCommand

\* <Dialog onClose={onReject}>: Escape or a click on the backdrop
ModalDismiss ==
    /\ ModalShown
    /\ handleRejectCommand

\* the "Create backup before execution" checkbox, shown when !analysis.reversible
ToggleBackup ==
    /\ ModalShown
    /\ ~commandAnalysis.reversible
    /\ createBackup' = ~createBackup
    /\ UNCHANGED <<session, countdown, effectDeps, terminalVars, appVars, restoreVars, uiVars>>

CurrentDeps == [open |-> approvalModalOpen, risk_level |-> commandAnalysis.risk_level]

\* useEffect(..., [open, analysis?.risk_level]), run after a render that changed them
CountdownEffect ==
    /\ CurrentDeps # effectDeps
    /\ countdown' = IF approvalModalOpen /\ commandAnalysis.risk_level = "critical"
                    THEN <<CoolDown>> ELSE <<>>
    /\ effectDeps' = CurrentDeps
    /\ UNCHANGED <<session, createBackup, terminalVars, appVars, restoreVars, uiVars>>

Bump(n) == IF n < CoolDown THEN n + 1 ELSE n

\* the cool-down clock of a dialog runs while it shows a critical command
Cooling(analysis, elapsed) == analysis.risk_level = "critical" /\ elapsed < CoolDown

\* One second passes: setTimeout(() => setCountdown(countdown - 1), 1000) fires
Tick ==
    /\ \/ confirmDialog.open /\ Cooling(confirmDialog.analysis, confirmDialog.elapsed)
       \/ pendingInfo.sub # NoSub /\ Cooling(commandAnalysis, pendingInfo.elapsed)
       \/ CountingDown
    /\ countdown' = IF CountingDown THEN <<countdown[1] - 1>> ELSE countdown
    /\ confirmDialog' =
           IF confirmDialog.open /\ Cooling(confirmDialog.analysis, confirmDialog.elapsed)
           THEN [confirmDialog EXCEPT !.elapsed = Bump(@)]
           ELSE confirmDialog
    /\ pendingInfo' =
           IF pendingInfo.sub # NoSub /\ Cooling(commandAnalysis, pendingInfo.elapsed)
           THEN [pendingInfo EXCEPT !.elapsed = Bump(@)]
           ELSE pendingInfo
    /\ UNCHANGED <<session, isExecuting, approvalModalOpen, pendingCommand,
                   commandAnalysis, approvalLoading, createBackup, effectDeps,
                   restoreVars, uiVars>>

-----------------------------------------------------------------------------
(* terminalApi.execute and its two callers                                 *)

\* an onData that has no branch for error events and prints them as output
TerminalLines_ErrorAsOutput(data) ==
    CASE data.type \in {"output", "error"} ->
            <<IF data.type = "output" /\ data.stream = "stderr" THEN "error" ELSE "output">>
      [] data.type = "execution_complete" ->
            IF ~data.success THEN <<"error">> ELSE <<>>
      [] data.type = "execution_start" ->
            IF Len(data.backups) > 0 THEN <<"info">> ELSE <<>>
      [] OTHER -> <<>>

\* the onData callback handleCommand passes to execute: the lines it adds
TerminalLines(data) ==
    CASE data.type = "output" ->
            <<IF data.stream = "stderr" THEN "error" ELSE "output">>
      [] data.type = "execution_complete" ->
            IF ~data.success THEN <<"error">> ELSE <<>>
      [] data.type = "error" -> <<"error">>
      [] data.type = "execution_start" ->
            IF Len(data.backups) > 0 THEN <<"info">> ELSE <<>>
      [] OTHER -> <<>>

\* onCommandExecuted?.(command, data) on execution_complete
TerminalCallbacks(data) == IF data.type = "execution_complete" THEN 1 ELSE 0

RECURSIVE LinesOf(_)
LinesOf(evs) ==
    IF evs = <<>> THEN <<>> ELSE TerminalLines(Head(evs)) \o LinesOf(Tail(evs))

RECURSIVE CallbacksOf(_)
CallbacksOf(evs) ==
    IF evs = <<>> THEN 0 ELSE TerminalCallbacks(Head(evs)) + CallbacksOf(Tail(evs))

\* the end of handleCommand: catch adds one line, finally clears isExecuting
TerminalFinally(s, threw) ==
    /\ isExecuting' = FALSE
    /\ session' = [session EXCEPT ![s] =
           [@ EXCEPT !.pc = "done",
                     !.throws = IF threw THEN @ + 1 ELSE @,
                     !.shown = IF threw THEN Append(@, "error") ELSE @]]
    /\ UNCHANGED <<confirmDialog, appVars, modalVars, restoreVars, uiVars>>

\* an end of handleApproveCommand that closes the modal and clears the pending
\* command in finally, after a throw as after a return
ApproveFinally_ClearsOnThrow(s, threw) ==
    /\ approvalLoading' = FALSE
    /\ approvalModalOpen' = FALSE
    /\ pendingCommand' = Null
    /\ commandAnalysis' = NoAnalysis
    /\ pendingInfo' = [sub |-> NoSub, elapsed |-> 0]
    /\ session' = [Discard(session, pendingInfo.sub) EXCEPT ![s] =
           [@ EXCEPT !.pc = "done", !.throws = IF threw THEN @ + 1 ELSE @]]
    /\ UNCHANGED <<terminalVars, modalVars, restoreVars, uiVars>>

\* the end of handleApproveCommand: on return the modal is closed and the
\* pending command cleared, on a throw they stay; finally clears the loading flag
ApproveFinally(s, threw) ==
    /\ approvalLoading' = FALSE
    /\ IF threw
       THEN /\ session' = [session EXCEPT ![s] =
                   [@ EXCEPT !.pc = IF pendingInfo.sub = s THEN "awaiting" ELSE "done",
                             !.throws = @ + 1]]
            /\ UNCHANGED <<approvalModalOpen, pendingCommand, commandAnalysis,
                           pendingInfo>>
       ELSE /\ approvalModalOpen' = FALSE
            /\ pendingCommand' = Null
            /\ commandAnalysis' = NoAnalysis
            /\ pendingInfo' = [sub |-> NoSub, elapsed |-> 0]
            /\ session' = [Discard(session, pendingInfo.sub) EXCEPT ![s] =
                   [@ EXCEPT !.pc = "done"]]
    /\ UNCHANGED <<terminalVars, modalVars, restoreVars, uiVars>>

Finally(s, threw) ==
    IF session[s].via = "terminal" THEN TerminalFinally(s, threw)
    ELSE ApproveFinally(s, threw)

\* fetch rejects, the response is not ok, or it has no body: execute throws
ExecuteThrows(s) ==
    /\ session[s].pc = "fetching"
    /\ session[s].throws < MaxThrows
    /\ Finally(s, TRUE)

\* the response arrives: the backend has decided what it streams and records
ExecuteResponds(s) ==
    /\ session[s].pc = "fetching"
    /\ \E failed \in MayFail(session[s].req) :
       \E evs \in BackendStreams(session[s].req, failed) :
          session' = [session EXCEPT ![s] =
              [@ EXCEPT !.pc = "streaming", !.failing = failed,
                        !.emitted = evs, !.wire = Encode(evs),
                        !.audit = @ \o AuditEntries(session[s].req, evs)]]
    /\ UNCHANGED <<terminalVars, appVars, modalVars, restoreVars, uiVars>>

\* one reader.read() that returns a chunk: decode, split, parse, onData
ExecuteReads(s, n) ==
    /\ session[s].pc = "streaming"
    /\ n \in 1..Len(session[s].wire)
    /\ LET chunk == SubSeq(session[s].wire, 1, n)
           rest == SubSeq(session[s].wire, n + 1, Len(session[s].wire))
           data == ParseChunk(chunk)
       IN session' = [session EXCEPT ![s] =
              [@ EXCEPT !.wire = rest,
                        !.received = @ \o data,
                        !.shown = IF session[s].via = "terminal"
                                  THEN @ \o LinesOf(data) ELSE @,
                        !.callbacks = IF session[s].via = "terminal"
                                      THEN @ + CallbacksOf(data) ELSE @]]
    /\ UNCHANGED <<terminalVars, appVars, modalVars, restoreVars, uiVars>>

\* reader.read() returns done: execute returns to its caller
ExecuteReturns(s) ==
    /\ session[s].pc = "streaming"
    /\ session[s].wire = <<>>
    /\ Finally(s, FALSE)

\* the whole of an execute call that does not throw, from the response to the
\* end of the read loop, without the events it hands to onData
ExecuteCompletes(s) ==
    /\ session[s].pc = "fetching"
    /\ Finally(s, FALSE)

-----------------------------------------------------------------------------
(* Backups and their restore                                               *)

\* Backup Manager: a content copy of an existing path under the backup root,
\* named so that it collides with no other backup
CreateBackup(p) ==
    LET b == Path("backups", Len(records) + 1) IN
    /\ Len(records) < MaxBackups
    /\ fs[p] # Missing
    /\ fs' = [fs EXCEPT ![b] = fs[p]]
    /\ records' = Append(records,
           [original_path |-> p, backup_path |-> b, taken |-> fs[p]])
    /\ UNCHANGED <<restored, gateVars, uiVars>>

\* a command that runs changes or deletes what is at a path
RunCommand(p, c) ==
    /\ c # fs[p]
    /\ fs' = [fs EXCEPT ![p] = c]
    /\ restored' = IF restored # <<>> /\ restored[1].original_path = p
                   THEN <<>> ELSE restored
    /\ UNCHANGED <<records, gateVars, uiVars>>

\* a request that carries the two paths in each other's field
RestoreRequest_Swapped(backupPath, originalPath) ==
    [backup_path |-> originalPath, original_path |-> backupPath]

\* api.post('/api/backups/restore', { backup_path, original_path })
RestoreRequest(backupPath, originalPath) ==
    [backup_path |-> backupPath, original_path |-> originalPath]

\* the restore endpoint: copy backup_path back over original_path; it fails,
\* and changes nothing, when there is nothing at backup_path
Restore(req) ==
    IF fs[req.backup_path] # Missing
    THEN [fs EXCEPT ![req.original_path] = fs[req.backup_path]]
    ELSE fs

\* backupApi.restore(backupPath, originalPath) for the i-th backup record
restore(i) ==
    /\ i \in 1..Len(records)
    /\ fs' = Restore(RestoreRequest(records[i].backup_path, records[i].original_path))
    /\ restored' = <<records[i]>>
    /\ UNCHANGED <<records, gateVars, uiVars>>

-----------------------------------------------------------------------------
\* Spec: every interleaving of MaxSubs submissions through the gate.  It
\* follows an execute call from the request to its return or throw and leaves
\* out the events of the stream; StreamSpec follows those, for one submission.
Next ==
    \/ \E s \in Subs, c \in Commands : SubmitTerminal(s, c)
    \/ \E s \in Subs, failed \in BOOLEAN : handleCommand(s, failed)
    \/ handleConfirmExecution
    \/ CancelConfirmDialog
    \/ \E s \in Subs, c \in Commands : SubmitRun(s, c)
    \/ \E s \in Subs, failed \in BOOLEAN : handleRunCommand(s, failed)
    \/ ModalApprove
    \/ ModalCancel
    \/ ModalDismiss
    \/ ToggleBackup
    \/ CountdownEffect
    \/ Tick
    \/ \E s \in Subs : ExecuteThrows(s)
    \/ \E s \in Subs : ExecuteCompletes(s)

Spec == Init /\ [][Next]_vars

\* StreamSpec: one submission, the backend's answer to its execute call, and
\* the stream cut into read chunks in every possible way
StreamNext ==
    \/ \E c \in Commands : SubmitTerminal(1, c)
    \/ \E failed \in BOOLEAN : handleCommand(1, failed)
    \/ handleConfirmExecution
    \/ CancelConfirmDialog
    \/ \E c \in Commands : SubmitRun(1, c)
    \/ \E failed \in BOOLEAN : handleRunCommand(1, failed)
    \/ ModalApprove
    \/ ModalCancel
    \/ ModalDismiss
    \/ ToggleBackup
    \/ CountdownEffect
    \/ Tick
    \/ ExecuteThrows(1)
    \/ ExecuteResponds(1)
    \/ \E n \in 1..(2 * (MaxOut + 2)) : ExecuteReads(1, n)
    \/ ExecuteReturns(1)

StreamSpec == Init /\ [][StreamNext]_vars

\* BackupSpec: backups of the working paths, commands that change them, and
\* restores of any backup made so far, in every order
BackupNext ==
    \/ \E p \in WorkPaths : CreateBackup(p)
    \/ \E p \in WorkPaths, c \in Contents \cup {Missing} : RunCommand(p, c)
    \/ \E i \in 1..MaxBackups : restore(i)

BackupSpec == Init /\ [][BackupNext]_vars

-----------------------------------------------------------------------------
(* Properties                                                              *)

Approved(s) == "approved" \in Range(session[s].decisions)
Rejected(s) == "rejected" \in Range(session[s].decisions)
InFlight(s) == session[s].pc \in {"fetching", "streaming"}
AnalysisReturned(s) == session[s].asked # "undecided" /\ ~session[s].analysisFailed

\* C1: an Execute request is issued for a command only if its analysis
\* returned requires_confirmation = false or the user approved that command.
C1_ExecuteOnlyWhenCleared ==
    \A s \in Subs :
        session[s].issued > 0 =>
            \/ AnalysisReturned(s) /\ ~session[s].analysis.requires_confirmation
            \/ Approved(s)

\* C2: every approval of a critical-risk command that issued an Execute
\* request came after the cool-down had elapsed since the command began to
\* await confirmation, in the ApprovalModal and in the Terminal's dialog.
C2_CoolDownOnEveryPath ==
    \A s \in Subs :
        (Approved(s) /\ risk_level(session[s].command) = "critical")
            => session[s].cooled

\* the step records a rejection of s
RejectStep(s) ==
    /\ Len(session'[s].decisions) = Len(session[s].decisions) + 1
    /\ session'[s].decisions[Len(session'[s].decisions)] = "rejected"

\* C3: once a submission is rejected no Execute request is issued for it any
\* more, and the rejecting step leaves the dialog closed with the pending
\* command and its analysis cleared.
C3_RejectionIsTerminal ==
    [][\A s \in Subs :
          /\ Rejected(s) => session'[s].issued = session[s].issued
          /\ RejectStep(s) =>
                IF session[s].via = "terminal"
                THEN /\ ~confirmDialog'.open
                     /\ confirmDialog'.command = ""
                     /\ confirmDialog'.analysis = NoAnalysis
                ELSE /\ ~approvalModalOpen'
                     /\ pendingCommand' = Null
                     /\ commandAnalysis' = NoAnalysis]_vars

\* a submission was rejected while it awaited confirmation, nothing was ever
\* requested for it, and a later submission has been executed since
C3_Witness ==
    \E s, t \in Subs :
        /\ session[s].pc = "rejected"
        /\ session[s].issued = 0
        /\ s < t
        /\ session[t].pc = "done"
        /\ session[t].issued > 0

\* C4: the decision on a session is final: a session that was approved and is
\* executing has no rejection recorded after its approval.
C4_DecisionIsFinal ==
    \A s \in Subs :
        (InFlight(s) /\ Approved(s)) =>
            session[s].decisions[Len(session[s].decisions)] = "approved"

\* C5: at most one Execute request of the Terminal is in flight at any time.
C5_AtMostOneExecuting ==
    Cardinality({s \in Subs : session[s].via = "terminal" /\ InFlight(s)}) <= 1

\* C6: on every entry point approval is required exactly when the analysis
\* has risk_level high or critical or is not reversible.
C6_SameRuleOnEveryPath ==
    \A s \in Subs :
        AnalysisReturned(s) =>
            ((session[s].asked = "yes") <=>
                (\/ session[s].analysis.risk_level \in {"high", "critical"}
                 \/ ~session[s].analysis.reversible))

\* C7: a command whose analysis does not require confirmation is executed
\* without a dialog: when its handler has finished, no approval was asked and
\* an Execute request has been issued for it.
C7_NoConfirmationRuns ==
    \A s \in Subs :
        (/\ session[s].pc = "done"
         /\ AnalysisReturned(s)
         /\ ~session[s].analysis.requires_confirmation)
            => (session[s].asked = "no" /\ session[s].issued > 0)

\* C8: the create_backup field of the Execute request issued by an approval
\* in the ApprovalModal equals the checkbox value passed to onApprove.
C8_BackupFlagCarried ==
    \A s \in Subs :
        (session[s].via = "run" /\ session[s].issued > 0) =>
            session[s].req.create_backup = session[s].backupChoice

C10_OneTerminalEventLast ==
    \A s \in Subs :
        (/\ session[s].pc = "done"
         /\ session[s].emitted # <<>>
         /\ session[s].emitted[Len(session[s].emitted)].type = "execution_complete")
        => LET r == session[s].received IN
           /\ r # <<>>
           /\ r[Len(r)].type = "execution_complete"
           /\ r[Len(r)].success = (r[Len(r)].exit_code = 0)
           /\ Cardinality({i \in 1..Len(r) : r[i].type = "execution_complete"}) = 1
           /\ session[s].via = "terminal" => session[s].callbacks = 1

\* p is an initial part of q
IsPrefix(p, q) == Len(p) <= Len(q) /\ SubSeq(q, 1, Len(p)) = p

\* C11: the consumer callback is handed the emitted events in emission order,
\* each once, and none is dropped: what it has received is always an initial
\* part of what was emitted, and all of it once execute has returned.
C11_OrderedNoDrop ==
    \A s \in Subs :
        /\ IsPrefix(session[s].received, session[s].emitted)
        /\ (session[s].pc = "done" /\ session[s].throws = 0)
              => session[s].received = session[s].emitted

\* C12: for an approved, non-reversible command with an affected path, every
\* output chunk the consumer observes comes after an execution_start event
\* that lists exactly one backup record per affected path.
C12_StartBeforeOutput ==
    \A s \in Subs :
        (/\ Approved(s)
         /\ ~reversible(session[s].command)
         /\ affected_paths(session[s].command) # <<>>)
        => \A i \in 1..Len(session[s].received) :
              session[s].received[i].type = "output" =>
                 \E j \in 1..(i - 1) :
                    session[s].received[j] =
                        StartEv(BackupRecords(affected_paths(session[s].command)))

\* the event is the terminal event of a run that was killed at the timeout
IsTimeout(ev) ==
    ev.type = "execution_complete" /\ "timeout" \in DOMAIN ev /\ ev.timeout

\* C13: when the execute call of a command that exceeded the timeout has
\* returned, the consumer's last event is the one terminal event of the run,
\* with success = false and the timeout flag, and the Terminal is no longer
\* executing.
C13_TimeoutEndsExecuting ==
    \A s \in Subs :
        (/\ session[s].pc = "done"
         /\ session[s].emitted # <<>>
         /\ IsTimeout(session[s].emitted[Len(session[s].emitted)]))
        => LET r == session[s].received IN
           /\ r # <<>>
           /\ IsTimeout(r[Len(r)])
           /\ ~r[Len(r)].success
           /\ Cardinality({i \in 1..Len(r) : r[i].type = "execution_complete"}) = 1
           /\ session[s].via = "terminal" => ~isExecuting

\* the event is a terminal event with the status "cancelled"
IsCancelled(ev) ==
    ev.type = "execution_complete" /\ "status" \in DOMAIN ev /\ ev.status = "cancelled"

\* the user dismissed a session after approving it: the reject came while its
\* execute call was in flight (a reject at the gate ends in pc = "rejected")
CancelledInFlight(s) ==
    /\ Approved(s)
    /\ Rejected(s)
    /\ session[s].pc \in {"fetching", "streaming", "done"}

\* C14: a session that was cancelled while it was executing ends with exactly
\* one terminal event, and that event has the status "cancelled".
C14_CancelYieldsCancelled ==
    \A s \in Subs :
        (CancelledInFlight(s) /\ session[s].pc = "done" /\ session[s].throws = 0)
        => LET r == session[s].received IN
           /\ r # <<>>
           /\ IsCancelled(r[Len(r)])
           /\ Cardinality({i \in 1..Len(r) : r[i].type = "execution_complete"}) = 1

\* how many times x occurs in the list q
Count(q, x) == Cardinality({i \in 1..Len(q) : q[i] = x})

\* the session has reached a terminal state: it was rejected at the gate, or
\* the execute call issued for it has returned or thrown
Ended(s) ==
    \/ session[s].pc = "rejected"
    \/ session[s].pc = "done" /\ session[s].issued > 0

\* C15: the audit log holds exactly one entry per terminal transition of a
\* session: one "rejected" entry per rejection, and for a session whose
\* execution has ended one "approved" entry per approval and one outcome
\* entry, "succeeded" or "failed".
C15_OneAuditEntryPerTransition ==
    \A s \in Subs :
        /\ Count(session[s].audit, "rejected") = Count(session[s].decisions, "rejected")
        /\ (Ended(s) /\ session[s].pc = "done" /\ session[s].throws = 0) =>
              /\ Count(session[s].audit, "approved")
                    = Count(session[s].decisions, "approved")
              /\ Count(session[s].audit, "succeeded")
                    + Count(session[s].audit, "failed") = 1

\* C16: a submission whose analysis call failed is not dropped: once its
\* handler has resumed, either approval has been asked for it or an Execute
\* request has been issued for it, on the Terminal path and on the
\* handleRunCommand path.
C16_AnalysisFailureContinues ==
    \A s \in Subs :
        (session[s].analysisFailed /\ session[s].pc # "analyzing")
            => (session[s].asked = "yes" \/ session[s].issued > 0)

\* the lines about the outcome that handleCommand's onData adds for an event
OutcomeLines(data) ==
    CASE data.type = "execution_complete" -> IF ~data.success THEN 1 ELSE 0
      [] data.type = "error" -> 1
      [] OTHER -> 0

RECURSIVE OutcomeLinesOf(_)
OutcomeLinesOf(evs) ==
    IF evs = <<>> THEN 0 ELSE OutcomeLines(Head(evs)) + OutcomeLinesOf(Tail(evs))

\* the messages about its outcome a session has shown the user: the Terminal
\* adds lines from onData and from its catch; handleApproveCommand,
\* handleRejectCommand and the Terminal's Cancel write to the console or nothing
OutcomeMessages(s) ==
    IF session[s].via = "terminal" /\ session[s].pc = "done"
    THEN OutcomeLinesOf(session[s].received) + session[s].throws
    ELSE 0

\* C17: every session that has ended, by completing, failing, throwing or
\* being rejected, has shown the user exactly one message about its outcome.
C17_OneMessagePerOutcome ==
    \A s \in Subs : Ended(s) => OutcomeMessages(s) = 1

\* C18: an Execute request is issued for a submission only after its analyze
\* call has finished and the gate has decided: the handler has resumed from
\* the analyze call, and if it asked for approval, the approval has been given.
C18_ExecuteAfterAnalyzeAndGate ==
    \A s \in Subs :
        session[s].issued > 0 =>
            /\ session[s].asked # "undecided"
            /\ session[s].asked = "yes" => Approved(s)

\* one submission was analysed, asked about, approved and executed, and
\* another was analysed and executed with no question
C18_Witness ==
    \E s, t \in Subs :
        /\ session[s].pc = "done" /\ session[s].asked = "yes"
        /\ Approved(s) /\ session[s].issued > 0
        /\ session[t].pc = "done" /\ session[t].asked = "no"
        /\ AnalysisReturned(t) /\ session[t].issued > 0

\* the backend ran the command: it made backups, produced output or ended a run
HasRun(evs) ==
    \E i \in 1..Len(evs) :
        evs[i].type \in {"execution_start", "output", "execution_complete"}

C21_FullCoolDownPerCommand ==
    (/\ ModalShown
     /\ commandAnalysis.risk_level = "critical"
     /\ pendingInfo.sub # NoSub
     /\ pendingInfo.elapsed < CoolDown)
        => ApproveDisabled

\* C22: no command that awaits confirmation is replaced or discarded without
\* a decision of the user on it.
C22_PendingStaysUntilDecided ==
    \A s \in Subs : session[s].pc # "discarded"

\* C23: the pending command and the analysis on display belong to the same
\* submission, in the Terminal's dialog and in the ApprovalModal, and the
\* Execute request an approval issues carries the command of the approved
\* submission with confirmed = true.
C23_ApprovedIsDisplayed ==
    /\ confirmDialog.open =>
          /\ confirmDialog.sub # NoSub
          /\ confirmDialog.command = session[confirmDialog.sub].command
          /\ confirmDialog.analysis = session[confirmDialog.sub].analysis
          /\ confirmDialog.analysis = analyze(confirmDialog.command)
    /\ pendingCommand # Null =>
          /\ pendingInfo.sub # NoSub
          /\ pendingCommand = session[pendingInfo.sub].command
          /\ commandAnalysis = session[pendingInfo.sub].analysis
          /\ commandAnalysis = analyze(pendingCommand)
    /\ \A s \in Subs :
          (Approved(s) /\ session[s].issued > 0) =>
              /\ session[s].req.command = session[s].command
              /\ session[s].req.confirmed
              /\ session[s].analysis = analyze(session[s].command)

\* a pending high-risk command was replaced in the open modal by a critical
\* one, which was then approved and requested
C23_Witness ==
    \E s, t \in Subs :
        /\ session[s].pc = "discarded"
        /\ session[s].command = "chmod"
        /\ session[t].command = "rm"
        /\ Approved(t)
        /\ session[t].pc = "fetching"
        /\ session[t].req = [command |-> "rm", confirmed |-> TRUE, create_backup |-> TRUE]

\* the Terminal's command input and Send button are disabled
InputDisabled == isExecuting

\* C24: in the Terminal isExecuting is true exactly while an Execute request
\* of the Terminal is in flight, and the input is disabled from the submission
\* of a command until its execution has ended.
C24_ExecutingWhileInFlight ==
    /\ isExecuting <=> (\E s \in Subs : session[s].via = "terminal" /\ InFlight(s))
    /\ (\E s \in Subs : /\ session[s].via = "terminal"
                        /\ session[s].pc \in {"analyzing", "fetching", "streaming"})
          => InputDisabled

\* the execute call of the approval of s ends in this step by throwing
ApproveThrowStep(s) ==
    /\ session[s].via = "run"
    /\ InFlight(s)
    /\ session'[s].throws = session[s].throws + 1

\* the execute call of the approval of s ends in this step by returning
ApproveReturnStep(s) ==
    /\ session[s].via = "run"
    /\ InFlight(s)
    /\ session'[s].pc = "done"
    /\ session'[s].throws = session[s].throws

\* C25: the step in which the Execute request of an approval throws changes
\* nothing of the modal but approvalLoading, which becomes false; the step in
\* which it returns leaves the modal closed, the pending command and analysis
\* cleared and approvalLoading false; and approvalLoading is true in every
\* state in which such a request is in flight.
C25_ThrowKeepsReturnCloses ==
    [][\A s \in Subs :
          /\ ApproveThrowStep(s) =>
                /\ approvalModalOpen' = approvalModalOpen
                /\ pendingCommand' = pendingCommand
                /\ commandAnalysis' = commandAnalysis
                /\ ~approvalLoading'
          /\ ApproveReturnStep(s) =>
                /\ ~approvalModalOpen'
                /\ pendingCommand' = Null
                /\ commandAnalysis' = NoAnalysis
                /\ ~approvalLoading'
          /\ (session[s].via = "run" /\ InFlight(s)) => approvalLoading]_vars

\* the request of an approval has thrown: the modal is still open on the same
\* command with its analysis, ready for another approval
C25_Witness ==
    \E s \in Subs :
        /\ session[s].via = "run"
        /\ session[s].throws = 1
        /\ session[s].pc = "awaiting"
        /\ approvalModalOpen
        /\ pendingCommand = session[s].command
        /\ commandAnalysis = session[s].analysis
        /\ ~approvalLoading

\* C26: the countdown is null whenever the modal is closed or the analysis on
\* display is not critical, and otherwise it is one of 5, 4, 3, 2, 1, 0; it
\* never goes below 0.
C26_CountdownValues ==
    IF approvalModalOpen /\ commandAnalysis.risk_level = "critical"
    THEN countdown # <<>> /\ countdown[1] \in 0..CoolDown
    ELSE countdown = <<>>


-----------------------------------------------------------------------------
(* ConnectionManager: the session list and its refresh interval             *)

SessionIds == 1..MaxSessions

\* loadSessions up to its await: one connectionsApi.list() request for the
\* whole list.
loadSessions == loads' = loads + 1

\* The component mounts: its effect loads the list and sets the refresh
\* interval.
Mount ==
    /\ ~mounted
    /\ loads < MaxLoads
    /\ mounted' = TRUE
    /\ loadSessions
    /\ intervals' = intervals + 1
    /\ UNCHANGED <<sessions, registry, gateVars, restoreVars, historyVars, navVars>>

\* An unmount that forgets the effect's cleanup.
Unmount_KeepsInterval ==
    /\ mounted
    /\ mounted' = FALSE
    /\ sessions' = {}
    /\ loads' = 0
    /\ UNCHANGED <<intervals, registry, gateVars, restoreVars, historyVars, navVars>>

\* The component unmounts: the effect's cleanup clears the interval.  The
\* list on display is gone with the component, and the requests in flight
\* can no longer change it.
Unmount ==
    /\ mounted
    /\ mounted' = FALSE
    /\ intervals' = intervals - 1
    /\ sessions' = {}
    /\ loads' = 0
    /\ UNCHANGED <<registry, gateVars, restoreVars, historyVars, navVars>>

\* A refresh interval fires.
IntervalTick ==
    /\ intervals > 0
    /\ loads < MaxLoads
    /\ loadSessions
    /\ UNCHANGED <<mounted, intervals, sessions, registry, gateVars, restoreVars,
                   historyVars, navVars>>

\* The Refresh button.
RefreshClick ==
    /\ mounted
    /\ loads < MaxLoads
    /\ loadSessions
    /\ UNCHANGED <<mounted, intervals, sessions, registry, gateVars, restoreVars,
                   historyVars, navVars>>

\* handleConnectSSH, handleConnectFTP: the backend has opened session id and
\* the handler reloads the list.
handleConnect(id) ==
    /\ mounted
    /\ id \notin registry
    /\ loads < MaxLoads
    /\ registry' = registry \cup {id}
    /\ loadSessions
    /\ UNCHANGED <<mounted, intervals, sessions, gateVars, restoreVars, historyVars,
                   navVars>>

\* handleDisconnect: the backend has closed session id and the handler
\* reloads the list.
handleDisconnect(id) ==
    /\ mounted
    /\ id \in sessions
    /\ id \in registry
    /\ loads < MaxLoads
    /\ registry' = registry \ {id}
    /\ loadSessions
    /\ UNCHANGED <<mounted, intervals, sessions, gateVars, restoreVars, historyVars,
                   navVars>>

\* A session runs out of time on the backend.
SessionExpires(id) ==
    /\ id \in registry
    /\ registry' = registry \ {id}
    /\ UNCHANGED <<mounted, intervals, sessions, loads, gateVars, restoreVars,
                   historyVars, navVars>>

\* loadSessions after its await: the response replaces the whole list; a
\* failure is swallowed.
ListResponds(ok) ==
    /\ loads > 0
    /\ loads' = loads - 1
    /\ sessions' = IF ok THEN registry ELSE sessions
    /\ UNCHANGED <<mounted, intervals, registry, gateVars, restoreVars, historyVars,
                   navVars>>

ConnNext ==
    \/ Mount
    \/ Unmount
    \/ IntervalTick
    \/ RefreshClick
    \/ \E id \in SessionIds : handleConnect(id)
    \/ \E id \in SessionIds : handleDisconnect(id)
    \/ \E id \in SessionIds : SessionExpires(id)
    \/ \E ok \in BOOLEAN : ListResponds(ok)

ConnSpec == Init /\ [][ConnNext]_vars

\* C27: the time-remaining refresh is one sweep over the whole list: a
\* mounted ConnectionManager has exactly one refresh interval and an
\* unmounted one has none, whatever the number of sessions and of reloads;
\* no step starts more than one list request, and a response that changes
\* the list on display replaces it by the whole registry.
C27_OneRefreshInterval ==
    [][ /\ intervals' = (IF mounted' THEN 1 ELSE 0)
        /\ loads' <= loads + 1
        /\ (mounted /\ mounted' /\ sessions' # sessions) => sessions' = registry ]_vars

\* C27 witness: remounted with two sessions on display and a reload in
\* flight, one interval set.
C27_Witness ==
    /\ mounted
    /\ Cardinality(sessions) >= 2
    /\ loads > 0
    /\ intervals = 1


-----------------------------------------------------------------------------
(* Terminal: the command history                                           *)

\* What the user can type: two blank texts and three commands.
TypedInputs == {"", " ", "ls", "rm", "cp"}

\* command.trim() is empty.
IsBlank(command) == command \in {"", " "}

\* A history that keeps a command that is submitted again.
AddToHistory_NoFilter(h, command) == Append(h, command)

\* setHistory((prev) => [...prev.filter((c) => c !== command), command])
AddToHistory(h, command) ==
    LET Other(c) == c # command
    IN Append(SelectSeq(h, Other), command)

\* history[i] || "" for a JavaScript index i.
HistoryAt(h, i) == IF i + 1 \in DOMAIN h THEN h[i + 1] ELSE ""

\* handleCommand as far as the history goes: the blank check, the history
\* and the history index.  cleared is the input after the call.
handleCommandHistory(command, cleared) ==
    /\ input' = cleared
    /\ IF IsBlank(command)
       THEN UNCHANGED <<history, historyIndex, lastCommand>>
       ELSE /\ history' = AddToHistory(history, command)
            /\ historyIndex' = -1
            /\ lastCommand' = <<command>>
    /\ UNCHANGED <<gateVars, restoreVars, connVars, navVars>>

\* The input's onChange.
onChange(text) ==
    /\ input' = text
    /\ UNCHANGED <<history, historyIndex, lastCommand, gateVars, restoreVars, connVars,
                   navVars>>

\* handleKeyDown, Enter without Shift, and the Send button.
Enter == handleCommandHistory(input, "")

\* handleKeyDown, ArrowUp.
ArrowUp ==
    /\ IF Len(history) > 0
       THEN LET newIndex == IF historyIndex < Len(history) - 1
                            THEN historyIndex + 1
                            ELSE historyIndex
            IN /\ historyIndex' = newIndex
               /\ input' = HistoryAt(history, Len(history) - 1 - newIndex)
       ELSE UNCHANGED <<historyIndex, input>>
    /\ UNCHANGED <<history, lastCommand, gateVars, restoreVars, connVars, navVars>>

\* handleKeyDown, ArrowDown.
ArrowDown ==
    /\ IF historyIndex > 0
       THEN LET newIndex == historyIndex - 1
            IN /\ historyIndex' = newIndex
               /\ input' = HistoryAt(history, Len(history) - 1 - newIndex)
       ELSE IF historyIndex = 0
            THEN /\ historyIndex' = -1
                 /\ input' = ""
            ELSE UNCHANGED <<historyIndex, input>>
    /\ UNCHANGED <<history, lastCommand, gateVars, restoreVars, connVars, navVars>>

\* handleConfirmExecution: Execute Anyway calls handleCommand again with the
\* dialog's command, which was submitted before; the input is left alone.
ConfirmExecutionHistory(command) ==
    /\ Includes(history, command)
    /\ handleCommandHistory(command, input)

HistoryNext ==
    \/ \E text \in TypedInputs : onChange(text)
    \/ Enter
    \/ ArrowUp
    \/ ArrowDown
    \/ \E command \in TypedInputs : ConfirmExecutionHistory(command)

HistorySpec == Init /\ [][HistoryNext]_vars

NoDuplicate(h) == \A i, j \in DOMAIN h : h[i] = h[j] => i = j

-----------------------------------------------------------------------------
(* NavigationSettingsDialog                                                *)

EnabledCount(cfg) == Cardinality({id \in DOMAIN cfg : cfg[id]})

\* The parent opens the dialog.
OpenSettings ==
    /\ ~open
    /\ open' = TRUE
    /\ synced' = FALSE
    /\ UNCHANGED <<config, order, draftConfig, draftOrder, error, saved, moves,
                   gateVars, restoreVars, connVars, historyVars>>

\* useEffect on [open, config, order]: an open dialog takes its drafts from
\* the props and clears the error.
DialogEffect ==
    /\ ~synced
    /\ synced' = TRUE
    /\ IF open
       THEN /\ draftConfig' = config
            /\ draftOrder' = order
            /\ error' = NoError
       ELSE UNCHANGED <<draftConfig, draftOrder, error>>
    /\ UNCHANGED <<open, config, order, saved, moves, gateVars, restoreVars, connVars,
                   historyVars>>

\* The updater of handleToggle and the error it sets.
ToggleResult(prev, id, checked) ==
    LET next == [prev EXCEPT ![id] = checked]
        nextEnabled == EnabledCount(next)
    IN IF nextEnabled = 0
       THEN [draft |-> prev, error |-> KeepOneError]
       ELSE [draft |-> next, error |-> NoError]

handleToggle(id, checked) ==
    /\ open
    /\ draftConfig' = ToggleResult(draftConfig, id, checked).draft
    /\ error' = ToggleResult(draftConfig, id, checked).error
    /\ UNCHANGED <<open, synced, config, order, draftOrder, saved, moves, gateVars,
                   restoreVars, connVars, historyVars>>

\* prev.indexOf(id), counted from 1; 0 when id is not in prev.
IndexOf(seq, x) ==
    IF Includes(seq, x)
    THEN CHOOSE i \in DOMAIN seq : seq[i] = x /\ \A j \in 1..(i - 1) : seq[j] # x
    ELSE 0

\* The updater of handleMove, positions counted from 1.
MoveResult(prev, id, direction) ==
    LET index == IndexOf(prev, id)
        targetIndex == IF direction = "up" THEN index - 1 ELSE index + 1
        removed == SubSeq(prev, 1, index - 1) \o SubSeq(prev, index + 1, Len(prev))
    IN IF index = 0
       THEN prev
       ELSE IF targetIndex < 1 \/ targetIndex > Len(prev)
            THEN prev
            ELSE SubSeq(removed, 1, targetIndex - 1) \o <<prev[index]>>
                     \o SubSeq(removed, targetIndex, Len(removed))

handleMove(id, direction) ==
    /\ open
    /\ moves < MaxMoves
    /\ moves' = moves + 1
    /\ draftOrder' = MoveResult(draftOrder, id, direction)
    /\ UNCHANGED <<open, synced, config, order, draftConfig, error, saved, gateVars,
                   restoreVars, connVars, historyVars>>

\* A save that hands over whatever the draft holds.
handleSave_NoCheck ==
    /\ open
    /\ saved' = <<[config |-> draftConfig, order |-> draftOrder]>>
    /\ config' = draftConfig
    /\ order' = draftOrder
    /\ open' = FALSE
    /\ synced' = FALSE
    /\ UNCHANGED <<draftConfig, draftOrder, error, moves, gateVars, restoreVars,
                   connVars, historyVars>>

\* handleSave: with no section enabled it sets an error and returns;
\* otherwise onSave hands the drafts to the parent, which keeps them, and
\* onClose closes the dialog.
handleSave ==
    /\ open
    /\ IF EnabledCount(draftConfig) = 0
       THEN /\ error' = EnableOneError
            /\ UNCHANGED <<open, synced, config, order, saved>>
       ELSE /\ saved' = <<[config |-> draftConfig, order |-> draftOrder]>>
            /\ config' = draftConfig
            /\ order' = draftOrder
            /\ open' = FALSE
            /\ synced' = FALSE
            /\ UNCHANGED error
    /\ UNCHANGED <<draftConfig, draftOrder, moves, gateVars, restoreVars, connVars,
                   historyVars>>

\* handleReset: onReset returns the defaults, which become the drafts.
handleReset ==
    /\ open
    /\ draftConfig' = getDefaultNavigationConfig
    /\ draftOrder' = DEFAULT_NAVIGATION_ORDER
    /\ error' = NoError
    /\ UNCHANGED <<open, synced, config, order, saved, moves, gateVars, restoreVars,
                   connVars, historyVars>>

\* Cancel, Escape or a click outside the dialog.
onClose ==
    /\ open
    /\ open' = FALSE
    /\ synced' = FALSE
    /\ UNCHANGED <<config, order, draftConfig, draftOrder, error, saved, moves,
                   gateVars, restoreVars, connVars, historyVars>>

\* The dialog over every stored configuration.
ConfigInit ==
    /\ GateInit
    /\ ConnInit
    /\ HistoryInit
    /\ \E item \in {<<>>} \cup {<<c>> : c \in StoredConfigs} : NavInit(item, <<>>)

ConfigNext ==
    \/ OpenSettings
    \/ DialogEffect
    \/ \E id \in DefaultIds, checked \in BOOLEAN : handleToggle(id, checked)
    \/ handleSave
    \/ handleReset
    \/ onClose

ConfigSpec == ConfigInit /\ [][ConfigNext]_vars

\* The dialog over every stored order.
OrderInit ==
    /\ GateInit
    /\ ConnInit
    /\ HistoryInit
    /\ \E item \in {<<>>} \cup {<<o>> : o \in StoredOrders} : NavInit(<<>>, item)

OrderNext ==
    \/ OpenSettings
    \/ DialogEffect
    \/ \E id \in StoredIds, direction \in {"up", "down"} : handleMove(id, direction)
    \/ handleSave
    \/ handleReset
    \/ onClose

OrderSpec == OrderInit /\ [][OrderNext]_vars

\* C29: at least one section stays enabled, whatever configuration the
\* dialog was opened with: in every state a toggle that would leave no
\* section enabled returns the draft it was given and the error, onSave has
\* never been given a configuration with no section enabled, and a draft
\* with no section enabled is the configuration the dialog was opened with.
C29_OneSectionEnabled ==
    /\ \A id \in DefaultIds, checked \in BOOLEAN :
           EnabledCount([draftConfig EXCEPT ![id] = checked]) = 0 =>
               ToggleResult(draftConfig, id, checked)
                   = [draft |-> draftConfig, error |-> KeepOneError]
    /\ saved # <<>> => EnabledCount(saved[1].config) >= 1
    /\ EnabledCount(draftConfig) = 0 => draftConfig = config

\* C29 witness: a toggle that would have left no section enabled was
\* refused, and the configuration that was then saved has one section
\* enabled.
C29_Witness ==
    /\ saved # <<>>
    /\ EnabledCount(saved[1].config) = 1
    /\ error = KeepOneError

IsPermutation(seq) ==
    /\ Len(seq) = Len(DEFAULT_NAVIGATION_ORDER)
    /\ \A id \in DefaultIds : Cardinality({i \in DOMAIN seq : seq[i] = id}) = 1

\* C30: the navigation order, as read from storage and as moved in the
\* dialog, is a permutation of the default section ids.
C30_OrderIsPermutation ==
    /\ IsPermutation(order)
    /\ IsPermutation(draftOrder)

====
